---- MODULE Spec2Model ----
(***************************************************************************)
(* A model of the plugy plugin runtime: the registry (Runtime), the typed  *)
(* handle and invocation path (PluginHandle, Func), the guest ABI surface  *)
(* (alloc, dealloc, write_msg, read_msg), the generated guest stubs and    *)
(* host wrappers, and the generated host import handlers (context).        *)
(***************************************************************************)
EXTENDS Integers, Sequences, FiniteSets, TLC

(***************************************************************************)
(* Bounds of the model.                                                    *)
(***************************************************************************)
\* width of one half of a packed word (u32 in the source, scaled down)
HalfBits == 4
\* number of application tasks that call into plugins
NumCallers == 2
\* calls the application submits in one run
MaxCalls == 2
\* stores (instances) one run creates
MaxStores == 2

Half == 2 ^ HalfBits
Word == Half * Half

Callers == 1 .. NumCallers
LoadIds == 1 .. 2
Stores == 1 .. MaxStores

(***************************************************************************)
(* Bitwise pair codec (plugy-core/src/bitwise.rs).                         *)
(***************************************************************************)
Shl(v, n) == (v * (2 ^ n)) % Word
Shr(v, n) == v \div (2 ^ n)

RECURSIVE BitOr(_, _)
BitOr(a, b) ==
    IF a = 0 THEN b
    ELSE IF b = 0 THEN a
    ELSE (IF (a % 2 = 1) \/ (b % 2 = 1) THEN 1 ELSE 0)
         + 2 * BitOr(a \div 2, b \div 2)

AsHalf(v) == v % Half

from_bitwise(value) ==
    << AsHalf(Shr(Shl(value, HalfBits), HalfBits)), AsHalf(Shr(value, HalfBits)) >>

\* mutant: the second field shifted by one bit less than the width of a half
IntoBitwiseNarrow(a, b) == BitOr(a, Shl(b, HalfBits - 1))

into_bitwise(a, b) == BitOr(a, Shl(b, HalfBits))

(***************************************************************************)
(* The wire encoding used across the ABI (bincode): a string is its length *)
(* followed by its bytes, a u32 is one fixed-width cell, a tuple or struct *)
(* is the concatenation of its fields, a unit value is empty.  Decoding    *)
(* reads the fields in order and ignores trailing bytes.                   *)
(***************************************************************************)
RECURSIVE Ser(_, _)
Ser(schema, vals) ==
    IF schema = << >> THEN << >>
    ELSE (IF Head(schema) = "str"
          THEN << Len(Head(vals)) >> \o Head(vals)
          ELSE << Head(vals) >>)
         \o Ser(Tail(schema), Tail(vals))

DeErr == [ok |-> FALSE, vals |-> << >>]

RECURSIVE De(_, _)
De(schema, bytes) ==
    IF schema = << >> THEN [ok |-> TRUE, vals |-> << >>]
    ELSE IF Len(bytes) = 0 THEN DeErr
    ELSE IF Head(schema) = "str"
         THEN LET n == bytes[1] IN
              IF Len(bytes) < 1 + n THEN DeErr
              ELSE LET rest == De(Tail(schema), SubSeq(bytes, n + 2, Len(bytes))) IN
                   IF rest.ok
                   THEN [ok |-> TRUE, vals |-> << SubSeq(bytes, 2, n + 1) >> \o rest.vals]
                   ELSE DeErr
         ELSE LET rest == De(Tail(schema), Tail(bytes)) IN
              IF rest.ok
              THEN [ok |-> TRUE, vals |-> << bytes[1] >> \o rest.vals]
              ELSE DeErr

(***************************************************************************)
(* The example programs: capability methods, guest modules, loaders and    *)
(* host context services.  Strings are sequences of character codes.       *)
(***************************************************************************)
StrHi    == << 8 >>
StrColon == << 9 >>
StrOK    == << 10, 9 >>
StrU     == << 11 >>
NameAda  == << 3, 4 >>
NameNul  == << 0 >>
Tenant1  == << 5 >>
Tenant2  == << 6 >>
Tenant3  == << 7 >>
BarValue == << 7 >>

Methods == {"greet", "whoami", "foo", "bar", "bump"}

\* the non-receiver argument types and the return type of each method
ArgSchema(m) == IF m = "greet" THEN << "str" >> ELSE << >>
RetSchema(m) ==
    CASE m = "greet"  -> << "str" >>
      [] m = "whoami" -> << "str" >>
      [] m = "foo"    -> << >>
      [] m = "bar"    -> << "u32" >>
      [] m = "bump"   -> << "u32" >>

\* the argument tuples the application passes
ArgsOf(m) == IF m = "greet" THEN {<< NameAda >>, << NameNul >>} ELSE {<< >>}

\* host import the user code of a method calls, with its arguments ("" = none)
ImportOf(m) ==
    CASE m = "greet"  -> "fetch"
      [] m = "whoami" -> "who"
      [] OTHER        -> ""
ImportArgs(m) == IF m = "greet" THEN << StrU >> ELSE << >>
ImportArgSchema(i) == IF i = "fetch" THEN << "str" >> ELSE << >>
ImportRetSchema(i) == << "str" >>

\* context services and the import names they register, in the order of
\* the methods of their impl block; Audit declares who() as Who does
Services == {"Fetcher", "Who"}
AllServices == Services \cup {"Audit"}
ServiceSeq(svc) ==
    CASE svc = "Fetcher" -> << "fetch" >>
      [] svc = "Who"     -> << "who" >>
      [] svc = "Audit"   -> << "log", "who" >>
ServiceMethods(svc) == {ServiceSeq(svc)[i] : i \in 1 .. Len(ServiceSeq(svc))}

MemoryTy  == "memory"
AllocTy   == "(i32)->i32"
DeallocTy == "(i64)->()"
GuestFnTy == "(i64)->i64"

AbiExports ==
    {<< "memory", MemoryTy >>, << "alloc", AllocTy >>, << "dealloc", DeallocTy >>}
GuestExports(ms) == {<< "_plugy_guest_" \o m, GuestFnTy >> : m \in ms}

\* guest modules: what the bytes compile to
GoodWasm(recv, ms, imps) ==
    [valid |-> TRUE, imports |-> imps, startOk |-> TRUE,
     exports |-> AbiExports \cup GuestExports(ms), receiver |-> recv,
     allocOk |-> TRUE, allocFault |-> "beyond", ret |-> "ok",
     startImport |-> ""]

UnitWasm    == GoodWasm(<< >>, {"greet", "whoami", "foo", "bar"}, {"fetch", "who"})
CounterWasm == GoodWasm(<< "u32" >>, {"bump", "greet"}, {"fetch"})

\* loaders: name(), bytes(), the descriptor payload the loader carries, and
\* ty, the std::any::type_name of the loader's type.  plugin_import generates
\* name() as the type name; loader 2 has a hand-written name().  The module
\* of loader 11 exports an alloc of its own that hands out a region beyond
\* the end of its linear memory, that of loader 12 an alloc that returns
\* offset 0, that of loader 13 an alloc that traps.  The modules of loaders
\* 14 and 15 were not built with plugy's macros: the entry points of 14
\* return a word that points beyond the memory, those of 15 return a
\* serialized u32 whatever the host expects.  The start function of the
\* module of loader 16 calls the host import who()
Loaders ==
    << [name |-> "A", ty |-> "A", bytesOk |-> TRUE, wasm |-> UnitWasm, tenant |-> Tenant1],
       [name |-> "B", ty |-> "C", bytesOk |-> TRUE, wasm |-> UnitWasm, tenant |-> Tenant2],
       [name |-> "A", ty |-> "A", bytesOk |-> TRUE, wasm |-> CounterWasm, tenant |-> Tenant3],
       [name |-> "B", ty |-> "B", bytesOk |-> FALSE, wasm |-> UnitWasm, tenant |-> Tenant1],
       [name |-> "A", ty |-> "A", bytesOk |-> TRUE,
        wasm |-> [UnitWasm EXCEPT !.valid = FALSE], tenant |-> Tenant2],
       [name |-> "A", ty |-> "A", bytesOk |-> TRUE,
        wasm |-> [UnitWasm EXCEPT !.imports = {"fetch", "log"}], tenant |-> Tenant2],
       [name |-> "B", ty |-> "B", bytesOk |-> TRUE,
        wasm |-> [UnitWasm EXCEPT !.startOk = FALSE], tenant |-> Tenant1],
       [name |-> "A", ty |-> "A", bytesOk |-> TRUE,
        wasm |-> [UnitWasm EXCEPT !.exports = @ \ {<< "memory", MemoryTy >>}],
        tenant |-> Tenant2],
       [name |-> "B", ty |-> "B", bytesOk |-> TRUE,
        wasm |-> [UnitWasm EXCEPT !.exports =
                     (@ \ {<< "alloc", AllocTy >>}) \cup {<< "alloc", GuestFnTy >>}],
        tenant |-> Tenant1],
       [name |-> "A", ty |-> "A", bytesOk |-> TRUE,
        wasm |-> [UnitWasm EXCEPT !.exports = @ \ {<< "dealloc", DeallocTy >>}],
        tenant |-> Tenant2],
       [name |-> "B", ty |-> "B", bytesOk |-> TRUE,
        wasm |-> [UnitWasm EXCEPT !.allocOk = FALSE], tenant |-> Tenant2],
       [name |-> "B", ty |-> "B", bytesOk |-> TRUE,
        wasm |-> [UnitWasm EXCEPT !.allocOk = FALSE, !.allocFault = "null"],
        tenant |-> Tenant2],
       [name |-> "B", ty |-> "B", bytesOk |-> TRUE,
        wasm |-> [UnitWasm EXCEPT !.allocOk = FALSE, !.allocFault = "trap"],
        tenant |-> Tenant2],
       [name |-> "B", ty |-> "B", bytesOk |-> TRUE,
        wasm |-> [UnitWasm EXCEPT !.ret = "beyond"], tenant |-> Tenant2],
       [name |-> "B", ty |-> "B", bytesOk |-> TRUE,
        wasm |-> [UnitWasm EXCEPT !.ret = "u32"], tenant |-> Tenant2],
       [name |-> "B", ty |-> "B", bytesOk |-> TRUE,
        wasm |-> [UnitWasm EXCEPT !.startImport = "who"], tenant |-> Tenant2] >>

\* the keys of the registry: loader names and loader type names
Names == {"A", "B", "C"}

(***************************************************************************)
(* State.                                                                  *)
(***************************************************************************)
VARIABLES
    linker,      \* Runtime.linker: the host imports registered so far
    panicked,    \* the thread that owns the runtime panicked
    modules,     \* Runtime.modules: name -> RuntimeModule, or NoModule
    nstores,     \* number of stores created so far
    inst,        \* per store: index of the loader whose module it instantiates
    data,        \* per store: the user-data slot, Option<RuntimeCaller>
    lock,        \* per store: the task holding the RwLock in write mode, or 0
    live,        \* per store: the guest buffers currently allocated
    mem,         \* per store: linear memory, the bytes at each buffer address
    lpc,         \* per load: its position
    lk,          \* per load: index of its loader
    lstore,      \* per load: the store it created
    lres,        \* per load: what it returns
    pc,          \* per task: its position
    handle,      \* per task: the PluginHandle it holds, or NoHandle
    method,      \* per task: the method of the call in progress
    args,        \* per task: the arguments the application passed
    packed,      \* per task: the packed word crossing the ABI
    guest,       \* per task: the locals of the guest stub
    res,         \* per task: the result of its last operation
    liveBefore,  \* per task: live buffers when call_checked took the lock
    calls,       \* the calls submitted so far
    seen,        \* per task: the descriptor its last import handler observed
    registered,  \* the services whose context() call has returned
    failedCtx,   \* the service whose context() call panicked, or ""
    trapped,     \* per store: a guest entry point has trapped
    bumps,       \* per store: bump() calls that have ended
    lastInsert,  \* per name: the store of the latest registry insert
    ticket,      \* per task: the submission number of its call in progress
    nested       \* per task: the call its import handler's service awaits

rtVars   == << linker, panicked, modules, nstores, inst, data >>
heapVars == << live, mem >>
loadVars == << lpc, lk, lstore, lres >>
taskVars == << pc, handle, method, args, packed, guest, res, liveBefore, calls, seen >>
histVars == << registered, failedCtx, trapped, bumps, lastInsert, ticket >>
vars == << rtVars, lock, heapVars, loadVars, taskVars, histVars, nested >>

NoModule == [store |-> 0, instance |-> 0]
NoHandle == [store |-> 0, instance |-> 0]
NoPlugin == [name |-> "", data |-> << >>]
None     == [some |-> FALSE, memory |-> 0, alloc_fn |-> 0, dealloc_fn |-> 0,
             plugin |-> NoPlugin]
NoGuest  == [recv |-> << >>, args |-> << >>, got |-> << >>]
NoRes    == [ok |-> FALSE, val |-> << >>, err |-> "none"]
Ok(v)    == [ok |-> TRUE, val |-> v, err |-> ""]
Err(e)   == [ok |-> FALSE, val |-> << >>, err |-> e]
NoLoadRes == [ok |-> FALSE, err |-> "none", handle |-> NoHandle]
NoNested == [store |-> 0, at |-> "none", ticket |-> 0]

\* guest addresses: a zero-length Vec has a dangling, never allocated pointer
Dangling == 1
\* the linear memory holds the addresses below MemorySize
MemorySize == Half - 1
HeapPtrs == (Dangling + 1) .. (MemorySize - 1)
\* the addresses of the linear memory; offset 0 is never handed out by the
\* guest allocator
Addrs == 0 .. (MemorySize - 1)

Init ==
    /\ linker = {}
    /\ panicked = FALSE
    /\ modules = [n \in Names |-> NoModule]
    /\ nstores = 0
    /\ inst = [s \in Stores |-> 0]
    /\ data = [s \in Stores |-> None]
    /\ lock = [s \in Stores |-> 0]
    /\ live = [s \in Stores |-> {}]
    /\ mem = [s \in Stores |-> [p \in Addrs |-> << >>]]
    /\ lpc = [l \in LoadIds |-> "idle"]
    /\ lk = [l \in LoadIds |-> 0]
    /\ lstore = [l \in LoadIds |-> 0]
    /\ lres = [l \in LoadIds |-> NoLoadRes]
    /\ pc = [c \in Callers |-> "idle"]
    /\ handle = [c \in Callers |-> NoHandle]
    /\ method = [c \in Callers |-> ""]
    /\ args = [c \in Callers |-> << >>]
    /\ packed = [c \in Callers |-> 0]
    /\ guest = [c \in Callers |-> NoGuest]
    /\ res = [c \in Callers |-> NoRes]
    /\ liveBefore = [c \in Callers |-> 0]
    /\ calls = 0
    /\ seen = [c \in Callers |-> NoPlugin]
    /\ registered = {}
    /\ failedCtx = ""
    /\ trapped = [s \in Stores |-> FALSE]
    /\ bumps = [s \in Stores |-> 0]
    /\ lastInsert = [n \in Names |-> 0]
    /\ ticket = [c \in Callers |-> 0]
    /\ nested = [c \in Callers |-> NoNested]

(***************************************************************************)
(* Runtime::context, Runtime::load / load_with, Runtime::get_plugin_by_name *)
(***************************************************************************)
HasExport(wasm, name, ty) == << name, ty >> \in wasm.exports

\* mutant: the dealloc export is not looked up during load
LoadErrorSkippingDealloc(ld) ==
    IF ~ld.bytesOk THEN "bytes"
    ELSE IF ~ld.wasm.valid THEN "compile"
    ELSE IF ~(ld.wasm.imports \subseteq linker) THEN "link"
    ELSE IF ~ld.wasm.startOk THEN "instantiate"
    ELSE IF ~HasExport(ld.wasm, "memory", MemoryTy) THEN "missing memory"
    ELSE IF ~HasExport(ld.wasm, "alloc", AllocTy) THEN "alloc"
    ELSE ""

\* the first step of load that fails for this loader, or "" when none does
LoadError(ld) ==
    IF ~ld.bytesOk THEN "bytes"
    ELSE IF ~ld.wasm.valid THEN "compile"
    ELSE IF ~(ld.wasm.imports \subseteq linker) THEN "link"
    ELSE IF ~ld.wasm.startOk THEN "instantiate"
    ELSE IF ~HasExport(ld.wasm, "memory", MemoryTy) THEN "missing memory"
    ELSE IF ~HasExport(ld.wasm, "alloc", AllocTy) THEN "alloc"
    ELSE IF ~HasExport(ld.wasm, "dealloc", DeallocTy) THEN "dealloc"
    ELSE ""

\* the loader -> descriptor conversion (plugin.into())
IntoPlugin(ld) == [name |-> ld.name, data |-> ld.tenant]

\* instance.get_memory / get_typed_func: the export of instance s, 0 if absent
Resolve(s, wasm, name, ty) == IF HasExport(wasm, name, ty) THEN s ELSE 0

RuntimeCaller(s, ld) ==
    [some |-> TRUE,
     memory |-> Resolve(s, ld.wasm, "memory", MemoryTy),
     alloc_fn |-> Resolve(s, ld.wasm, "alloc", AllocTy),
     dealloc_fn |-> Resolve(s, ld.wasm, "dealloc", DeallocTy),
     plugin |-> IntoPlugin(ld)]

RuntimeModule(s) == [store |-> s, instance |-> s]

\* PluginHandle { store: module.store.clone(), instance: module.instance }
PluginHandle(module) == [store |-> module.store, instance |-> module.instance]

\* mutant: the record under the loader's name is removed before loading
LoadFailDroppingRecord(l, e) ==
    /\ lpc' = [lpc EXCEPT ![l] = "returned"]
    /\ lres' = [lres EXCEPT ![l] = [ok |-> FALSE, err |-> e, handle |-> NoHandle]]
    /\ modules' = [modules EXCEPT ![Loaders[lk'[l]].name] = NoModule]
    /\ UNCHANGED << nstores, inst, data, lstore >>

\* the `?` of a failing step: load returns the error
LoadFail(l, e) ==
    /\ lpc' = [lpc EXCEPT ![l] = "returned"]
    /\ lres' = [lres EXCEPT ![l] = [ok |-> FALSE, err |-> e, handle |-> NoHandle]]
    /\ UNCHANGED << modules, nstores, inst, data, lstore >>

\* mutant: the load also resets the user data of the stores made before
LoadInstantiateClearing(l, k) ==
    /\ nstores < MaxStores
    /\ nstores' = nstores + 1
    /\ inst' = [inst EXCEPT ![nstores + 1] = k]
    /\ data' = [s \in Stores |->
                  IF s = nstores + 1 THEN RuntimeCaller(s, Loaders[k]) ELSE None]
    /\ lstore' = [lstore EXCEPT ![l] = nstores + 1]
    /\ lpc' = [lpc EXCEPT ![l] = "prepared"]
    /\ UNCHANGED << modules, lres >>

\* Store::new, instantiate, export lookup, and the write of the user data
LoadInstantiate(l, k) ==
    /\ nstores < MaxStores
    /\ nstores' = nstores + 1
    /\ inst' = [inst EXCEPT ![nstores + 1] = k]
    /\ data' = [data EXCEPT ![nstores + 1] = RuntimeCaller(nstores + 1, Loaders[k])]
    /\ lstore' = [lstore EXCEPT ![l] = nstores + 1]
    /\ lpc' = [lpc EXCEPT ![l] = "prepared"]
    /\ UNCHANGED << modules, lres >>

\* Store::new(&engine, None) and instantiate_async up to the host import
\* the start function of the module calls
LoadStart(l, k) ==
    /\ nstores < MaxStores
    /\ nstores' = nstores + 1
    /\ inst' = [inst EXCEPT ![nstores + 1] = k]
    /\ lstore' = [lstore EXCEPT ![l] = nstores + 1]
    /\ lpc' = [lpc EXCEPT ![l] = "start_import"]
    /\ UNCHANGED << modules, data, lres >>

\* load, from plugin.bytes() to the write of the store's user data, or to
\* the import call of the start function
LoadPrepare(l, k) ==
    /\ ~panicked
    /\ lpc[l] = "idle"
    /\ lk' = [lk EXCEPT ![l] = k]
    /\ IF LoadError(Loaders[k]) # ""
       THEN LoadFail(l, LoadError(Loaders[k]))
       ELSE IF Loaders[k].wasm.startImport # ""
       THEN LoadStart(l, k)
       ELSE LoadInstantiate(l, k)
    /\ UNCHANGED << linker, panicked, nested, lock, heapVars, taskVars, histVars >>

\* the generated handler, invoked by the start function during
\* instantiate_async: caller.data().clone().unwrap() panics on an unset
\* slot; with the bundle in place the handler returns and load goes on to
\* the export lookups and the write of the user data
StartImport(l) ==
    /\ ~panicked
    /\ lpc[l] = "start_import"
    /\ IF data[lstore[l]].some
       THEN /\ lpc' = [lpc EXCEPT ![l] = "prepared"]
            /\ data' = [data EXCEPT ![lstore[l]] =
                           RuntimeCaller(lstore[l], Loaders[lk[l]])]
            /\ UNCHANGED panicked
       ELSE /\ lpc' = [lpc EXCEPT ![l] = "panicked"]
            /\ panicked' = TRUE
            /\ UNCHANGED data
    /\ UNCHANGED << linker, modules, nstores, inst, lock, heapVars, lk, lstore,
                    lres, taskVars, histVars, nested >>

\* mutant: a record already under the name is kept
InsertIfAbsent(map, name, record) ==
    IF map[name] = NoModule THEN [map EXCEPT ![name] = record] ELSE map

\* DashMap::insert(name, record): a record already under the name is replaced
Insert(map, name, record) == [map EXCEPT ![name] = record]

\* load: self.modules.insert(name, RuntimeModule {..})
LoadInsert(l) ==
    /\ ~panicked
    /\ lpc[l] = "prepared"
    /\ modules' = Insert(modules, Loaders[lk[l]].name, RuntimeModule(lstore[l]))
    /\ lastInsert' = [lastInsert EXCEPT ![Loaders[lk[l]].name] = lstore[l]]
    /\ lpc' = [lpc EXCEPT ![l] = "inserted"]
    /\ UNCHANGED << linker, panicked, nested, nstores, inst, data, lock, heapVars,
                    lk, lstore, lres, taskVars, registered, failedCtx,
                    trapped, bumps, ticket >>

\* mutant: the lookup unwraps the map entry instead of returning an error
LookupUnwrapping(name) ==
    [ok |-> TRUE, err |-> "", handle |-> PluginHandle(modules[name])]

\* get_plugin_by_name: the handle of the record under the name, or an error
get_plugin_by_name(name) ==
    IF modules[name] = NoModule
    THEN [ok |-> FALSE, err |-> "missing plugin", handle |-> NoHandle]
    ELSE [ok |-> TRUE, err |-> "", handle |-> PluginHandle(modules[name])]

\* mutant: the type-indexed lookup keyed by the loader's name()
LoaderName(k) == Loaders[k].name

\* std::any::type_name::<P>() of the type of loader k
type_name(k) == Loaders[k].ty

\* get_plugin::<P>(): the handle of the record under type_name::<P>()
get_plugin(k) ==
    IF modules[type_name(k)] = NoModule
    THEN [ok |-> FALSE, err |-> "missing plugin", handle |-> NoHandle]
    ELSE [ok |-> TRUE, err |-> "", handle |-> PluginHandle(modules[type_name(k)])]

\* load: let plugin = self.get_plugin_by_name(&name)?; Ok(plugin)
LoadGet(l) ==
    /\ ~panicked
    /\ lpc[l] = "inserted"
    /\ lres' = [lres EXCEPT ![l] = get_plugin_by_name(Loaders[lk[l]].name)]
    /\ lpc' = [lpc EXCEPT ![l] = "returned"]
    /\ UNCHANGED << rtVars, nested, lock, heapVars, lk, lstore, taskVars, histVars >>

LoadReset(l) ==
    /\ lpc' = [lpc EXCEPT ![l] = "idle"]
    /\ lk' = [lk EXCEPT ![l] = 0]
    /\ lstore' = [lstore EXCEPT ![l] = 0]
    /\ lres' = [lres EXCEPT ![l] = NoLoadRes]

\* the application keeps the handle a load returned
TakeHandle(l, c) ==
    /\ ~panicked
    /\ lpc[l] = "returned"
    /\ lres[l].ok
    /\ pc[c] = "idle"
    /\ handle' = [handle EXCEPT ![c] = lres[l].handle]
    /\ res' = [res EXCEPT ![c] = NoRes]
    /\ LoadReset(l)
    /\ UNCHANGED << rtVars, nested, lock, heapVars, pc, method, args,
                    packed, guest, liveBefore, calls, seen, histVars >>

\* the application drops what a load returned
DropResult(l) ==
    /\ ~panicked
    /\ lpc[l] = "returned"
    /\ LoadReset(l)
    /\ UNCHANGED << rtVars, nested, lock, heapVars, taskVars, histVars >>

\* mutant: the lookup takes the record out of the registry
GetPluginRemoving(c, n) ==
    /\ ~panicked
    /\ pc[c] = "idle"
    /\ handle[c] = NoHandle
    /\ IF get_plugin_by_name(n).ok
       THEN /\ handle' = [handle EXCEPT ![c] = get_plugin_by_name(n).handle]
            /\ res' = [res EXCEPT ![c] = NoRes]
       ELSE /\ res' = [res EXCEPT ![c] = Err(get_plugin_by_name(n).err)]
            /\ UNCHANGED handle
    /\ modules' = [modules EXCEPT ![n] = NoModule]
    /\ UNCHANGED << linker, panicked, nested, nstores, inst, data, lock, heapVars,
                    loadVars, pc, method, args, packed, guest, liveBefore,
                    calls, seen, histVars >>

\* the application looks a plugin up by name
GetPlugin(c, n) ==
    /\ ~panicked
    /\ pc[c] = "idle"
    /\ handle[c] = NoHandle
    /\ IF get_plugin_by_name(n).ok
       THEN /\ handle' = [handle EXCEPT ![c] = get_plugin_by_name(n).handle]
            /\ res' = [res EXCEPT ![c] = NoRes]
       ELSE /\ res' = [res EXCEPT ![c] = Err(get_plugin_by_name(n).err)]
            /\ UNCHANGED handle
    /\ UNCHANGED << rtVars, nested, lock, heapVars, loadVars, pc, method, args,
                    packed, guest, liveBefore, calls, seen, histVars >>

\* the application looks a plugin up by the type of loader k
GetPluginOfType(c, k) ==
    /\ ~panicked
    /\ pc[c] = "idle"
    /\ handle[c] = NoHandle
    /\ IF get_plugin(k).ok
       THEN /\ handle' = [handle EXCEPT ![c] = get_plugin(k).handle]
            /\ res' = [res EXCEPT ![c] = NoRes]
       ELSE /\ res' = [res EXCEPT ![c] = Err(get_plugin(k).err)]
            /\ UNCHANGED handle
    /\ UNCHANGED << rtVars, nested, lock, heapVars, loadVars, pc, method, args,
                    packed, guest, liveBefore, calls, seen, histVars >>

\* the application clones the handle of task c for task d: the clone
\* carries the same Arc of the store lock and the same instance
CloneHandle(c, d) ==
    /\ ~panicked
    /\ c # d
    /\ handle[c] # NoHandle
    /\ pc[d] = "idle"
    /\ handle[d] = NoHandle
    /\ handle' = [handle EXCEPT ![d] = handle[c]]
    /\ res' = [res EXCEPT ![d] = NoRes]
    /\ UNCHANGED << rtVars, nested, lock, heapVars, loadVars, pc, method, args,
                    packed, guest, liveBefore, calls, seen, histVars >>

\* mutant: the linker allows a later definition to shadow an earlier one
FuncWrapShadowing(lnk, m) == [ok |-> TRUE, linker |-> lnk \cup {m}]

\* Linker::func_wrap_async("env", "_plugy_context_<m>", ..): an error when the
\* name is already defined in the linker
func_wrap_async(lnk, m) ==
    IF m \in lnk
    THEN [ok |-> FALSE, linker |-> lnk]
    ELSE [ok |-> TRUE, linker |-> lnk \cup {m}]

\* the generated Context::link: one func_wrap_async(..).unwrap() per method,
\* in order; the first error panics and the later methods are not reached
RECURSIVE link(_, _)
link(ms, lnk) ==
    IF ms = << >> THEN [ok |-> TRUE, linker |-> lnk]
    ELSE IF func_wrap_async(lnk, Head(ms)).ok
         THEN link(Tail(ms), func_wrap_async(lnk, Head(ms)).linker)
         ELSE func_wrap_async(lnk, Head(ms))

\* Runtime::context: ctx.link(&mut self.linker)
Context(svc) ==
    /\ ~panicked
    /\ \A l \in LoadIds : lpc[l] \in {"idle", "returned"}
    /\ linker' = link(ServiceSeq(svc), linker).linker
    /\ panicked' = ~link(ServiceSeq(svc), linker).ok
    /\ IF link(ServiceSeq(svc), linker).ok
       THEN registered' = registered \cup {svc} /\ UNCHANGED failedCtx
       ELSE failedCtx' = svc /\ UNCHANGED registered
    /\ UNCHANGED << nested, modules, nstores, inst, data, lock, heapVars, loadVars,
                    taskVars, trapped, bumps, lastInsert, ticket >>

(***************************************************************************)
(* Guest ABI surface (plugy-core/src/guest.rs) over one instance's heap    *)
(* h = [live, mem].                                                        *)
(***************************************************************************)
Heap(s) == [live |-> live[s], mem |-> mem[s]]

SetHeap(s, h) ==
    /\ live' = [live EXCEPT ![s] = h.live]
    /\ mem' = [mem EXCEPT ![s] = h.mem]

FreshPtr(h) ==
    CHOOSE p \in HeapPtrs \ h.live : \A q \in HeapPtrs \ h.live : p <= q

\* alloc(len): Vec::with_capacity(len), forgotten; no allocation when len = 0
alloc(h, len) ==
    IF len = 0
    THEN [ptr |-> Dangling, heap |-> h]
    ELSE [ptr |-> FreshPtr(h), heap |-> [h EXCEPT !.live = @ \cup {FreshPtr(h)}]]

\* dealloc(value): Vec::from_raw_parts(ptr, len, len), dropped
dealloc(h, value) ==
    IF from_bitwise(value)[2] = 0
    THEN h
    ELSE [h EXCEPT !.live = @ \ {from_bitwise(value)[1]}]

\* the alloc export of the module: plugy's alloc, or one that traps, one
\* that returns offset 0 and books nothing, or one that books the region at
\* MemorySize, beyond the end of the memory
alloc_fn(wasm, h, len) ==
    IF wasm.allocOk
    THEN [ok |-> TRUE, ptr |-> alloc(h, len).ptr, heap |-> alloc(h, len).heap]
    ELSE CASE wasm.allocFault = "trap" -> [ok |-> FALSE, ptr |-> 0, heap |-> h]
           [] wasm.allocFault = "null" -> [ok |-> TRUE, ptr |-> 0, heap |-> h]
           [] OTHER -> [ok |-> TRUE, ptr |-> MemorySize,
                        heap |-> [h EXCEPT !.live = @ \cup {MemorySize}]]

\* Memory::write and Memory::read fail when the range leaves the memory
InBounds(ptr, len) == len = 0 \/ ptr \in 0 .. (MemorySize - 1)

\* Memory::write(ptr, buffer)
memory_write(h, ptr, buffer) ==
    IF buffer = << >> THEN h ELSE [h EXCEPT !.mem[ptr] = buffer]

\* Memory::read(ptr, len)
memory_read(h, ptr, len) ==
    IF len = 0 THEN [ok |-> TRUE, bytes |-> << >>]
    ELSE IF ptr \in Addrs /\ Len(h.mem[ptr]) >= len
         THEN [ok |-> TRUE, bytes |-> SubSeq(h.mem[ptr], 1, len)]
         ELSE [ok |-> FALSE, bytes |-> << >>]

\* mutant: the Vec is dropped instead of forgotten
WriteMsgDropping(h, schema, vals) ==
    LET buffer == Ser(schema, vals)
        a == alloc(h, AsHalf(Len(buffer)))
    IN  [packed |-> into_bitwise(a.ptr, AsHalf(Len(buffer))),
         heap |-> memory_write(h, a.ptr, buffer)]

\* write_msg(value): serialize into a Vec, forget it, return its packed pointer
write_msg(h, schema, vals) ==
    LET buffer == Ser(schema, vals)
        a == alloc(h, AsHalf(Len(buffer)))
    IN  [packed |-> into_bitwise(a.ptr, AsHalf(Len(buffer))),
         heap |-> memory_write(a.heap, a.ptr, buffer)]

\* mutant: the rebuilt Vec is forgotten instead of dropped
ReadMsgKeeping(h, schema, value) ==
    LET buffer == memory_read(h, from_bitwise(value)[1], from_bitwise(value)[2])
        d == IF buffer.ok THEN De(schema, buffer.bytes) ELSE DeErr
    IN  [ok |-> d.ok, vals |-> d.vals, heap |-> h]

\* read_msg(value): rebuild the Vec, deserialize, drop the Vec at scope exit;
\* a failed decode panics, which aborts the guest before anything is dropped
read_msg(h, schema, value) ==
    LET buffer == memory_read(h, from_bitwise(value)[1], from_bitwise(value)[2])
        d == IF buffer.ok THEN De(schema, buffer.bytes) ELSE DeErr
    IN  [ok |-> d.ok, vals |-> d.vals,
         heap |-> IF d.ok THEN dealloc(h, value) ELSE h]

(***************************************************************************)
(* PluginHandle::get_func, Func::call_checked / call_unchecked, the        *)
(* generated host wrapper, the generated guest stub and the generated host *)
(* import handler.                                                         *)
(***************************************************************************)
\* mutant: a handle follows the record now registered under its name
StoreOfRegistered(c) ==
    IF handle[c] = NoHandle THEN 0
    ELSE modules[Loaders[inst[handle[c].store]].name].store

StoreOf(c) == handle[c].store
WasmOf(c) == Loaders[inst[handle[c].instance]].wasm

\* mutant: the store lock taken in shared (read) mode
WriteLockShared(s) == TRUE

\* mutant: one lock for all stores of the runtime
WriteLockGlobal(s) == \A t \in Stores : lock[t] = 0

\* store.write().await: the lock is granted only while nobody holds it
WriteLockFree(s) == lock[s] = 0

\* the tuple the generated wrapper serializes: &(arg1, .., argN)
WrapperSchema(m) == ArgSchema(m)

\* the tuple the generated guest stub deserializes: (Self, arg1, .., argN)
StubSchema(wasm, m) == wasm.receiver \o ArgSchema(m)

\* the application calls a method of its handle
Submit(c, m, a) ==
    /\ ~panicked
    /\ pc[c] = "idle"
    /\ handle[c] # NoHandle
    /\ calls < MaxCalls
    /\ calls' = calls + 1
    /\ pc' = [pc EXCEPT ![c] = "get_func"]
    /\ method' = [method EXCEPT ![c] = m]
    /\ args' = [args EXCEPT ![c] = a]
    /\ res' = [res EXCEPT ![c] = NoRes]
    /\ ticket' = [ticket EXCEPT ![c] = calls + 1]
    /\ UNCHANGED << rtVars, nested, lock, heapVars, loadVars, handle, packed, guest,
                    liveBefore, seen, registered, failedCtx, trapped, bumps,
                    lastInsert >>

\* task 1 calls through the generated wrapper (get_func(..).unwrap(), then
\* call_unchecked), the other tasks through get_func(..)? and call_checked
Shape(c) == IF c = 1 THEN "wrapper" ELSE "api"

\* mutant: call_unchecked hands the error back instead of unwrapping it
SurfaceReturning(c, e) ==
    /\ res' = [res EXCEPT ![c] = Err(e)]
    /\ pc' = [pc EXCEPT ![c] = "returned"]

\* an error reaches the caller: returned by the checked shape, a panic of
\* the task in the wrapper
Surface(c, e) ==
    /\ res' = [res EXCEPT ![c] = Err(e)]
    /\ pc' = [pc EXCEPT ![c] = IF Shape(c) = "wrapper" THEN "panicked" ELSE "returned"]

\* mutant: get_func resolves the export without taking the write lock
GetFuncUnlocked(c) ==
    /\ ~panicked
    /\ pc[c] = "get_func"
    /\ IF HasExport(WasmOf(c), "_plugy_guest_" \o method[c], GuestFnTy)
       THEN pc' = [pc EXCEPT ![c] = "call"] /\ UNCHANGED res
       ELSE Surface(c, "missing export")
    /\ UNCHANGED << rtVars, nested, lock, heapVars, loadVars, handle, method, args,
                    packed, guest, liveBefore, calls, seen, histVars >>

\* get_func: takes the write lock, resolves the typed export, releases
GetFunc(c) ==
    /\ ~panicked
    /\ pc[c] = "get_func"
    /\ WriteLockFree(StoreOf(c))
    /\ IF HasExport(WasmOf(c), "_plugy_guest_" \o method[c], GuestFnTy)
       THEN pc' = [pc EXCEPT ![c] = "call"] /\ UNCHANGED res
       ELSE Surface(c, "missing export")
    /\ UNCHANGED << rtVars, nested, lock, heapVars, loadVars, handle, method, args,
                    packed, guest, liveBefore, calls, seen, histVars >>

\* call_checked: let mut store = self.store.write().await
Acquire(c) ==
    /\ ~panicked
    /\ pc[c] = "call"
    /\ WriteLockFree(StoreOf(c))
    /\ lock' = [lock EXCEPT ![StoreOf(c)] = c]
    /\ liveBefore' = [liveBefore EXCEPT ![c] = Cardinality(live[StoreOf(c)])]
    /\ pc' = [pc EXCEPT ![c] = "locked"]
    /\ UNCHANGED << rtVars, nested, heapVars, loadVars, handle, method, args,
                    packed, guest, res, calls, seen, histVars >>

\* mutant: the write guard outlives the call
ReleaseNever(c) == lock' = lock

\* the write guard is dropped when call_checked returns or unwinds
Release(c) == lock' = [lock EXCEPT ![StoreOf(c)] = 0]

\* call_checked: clone the bundle, serialize, alloc_fn, memory.write; a
\* trapped alloc and a failed write return the error
HostSend(c) ==
    /\ ~panicked
    /\ pc[c] = "locked"
    /\ data[StoreOf(c)].some
    /\ LET buffer == Ser(WrapperSchema(method[c]), args[c])
           len == AsHalf(Len(buffer))
           a == alloc_fn(WasmOf(c), Heap(StoreOf(c)), len)
       IN  IF ~a.ok
           THEN /\ Surface(c, "allocation")
                /\ Release(c)
                /\ bumps' = [bumps EXCEPT ![StoreOf(c)] =
                       IF method[c] = "bump" THEN @ + 1 ELSE @]
                /\ UNCHANGED << heapVars, packed >>
           ELSE IF InBounds(a.ptr, len)
           THEN /\ SetHeap(StoreOf(c), memory_write(a.heap, a.ptr, buffer))
                /\ packed' = [packed EXCEPT ![c] = into_bitwise(a.ptr, len)]
                /\ pc' = [pc EXCEPT ![c] = "guest_entry"]
                /\ UNCHANGED << lock, res, bumps >>
           ELSE /\ SetHeap(StoreOf(c), a.heap)
                /\ Surface(c, "memory")
                /\ Release(c)
                /\ bumps' = [bumps EXCEPT ![StoreOf(c)] =
                       IF method[c] = "bump" THEN @ + 1 ELSE @]
                /\ UNCHANGED packed
    /\ UNCHANGED << rtVars, nested, loadVars, handle, method, args, guest,
                    liveBefore, calls, seen, registered, failedCtx, trapped,
                    lastInsert, ticket >>

\* mutant: the error path leaves without dropping the write guard
GuestTrapKeepingLock(c) ==
    /\ Surface(c, "guest trap")
    /\ trapped' = [trapped EXCEPT ![StoreOf(c)] = TRUE]
    /\ bumps' = [bumps EXCEPT ![StoreOf(c)] = IF method[c] = "bump" THEN @ + 1 ELSE @]
    /\ UNCHANGED << rtVars, nested, lock, loadVars, handle, method, args, packed, guest,
                    liveBefore, calls, seen, registered, failedCtx, lastInsert,
                    ticket >>

\* the guest trapped: call_async(..).await? returns the error
GuestTrap(c) ==
    /\ Surface(c, "guest trap")
    /\ Release(c)
    /\ trapped' = [trapped EXCEPT ![StoreOf(c)] = TRUE]
    /\ bumps' = [bumps EXCEPT ![StoreOf(c)] = IF method[c] = "bump" THEN @ + 1 ELSE @]
    /\ UNCHANGED << rtVars, nested, loadVars, handle, method, args, packed, guest,
                    liveBefore, calls, seen, registered, failedCtx, lastInsert,
                    ticket >>

\* a word that describes a non-empty region at offset 0: rebuilding a Vec
\* from it (Vec::from_raw_parts with a null pointer) is undefined behaviour
NullRegion(value) == from_bitwise(value)[1] = 0 /\ from_bitwise(value)[2] # 0

\* the guest stub: let (value, args..) = read_msg(value); on a null region
\* the guest either traps or goes on with the bytes at offset 0
GuestEntry(c) ==
    /\ ~panicked
    /\ pc[c] = "guest_entry"
    /\ LET r == read_msg(Heap(StoreOf(c)), StubSchema(WasmOf(c), method[c]), packed[c])
           nrecv == Len(WasmOf(c).receiver)
       IN  IF r.ok
           THEN \/ /\ SetHeap(StoreOf(c), r.heap)
                   /\ guest' = [guest EXCEPT ![c] =
                          [recv |-> SubSeq(r.vals, 1, nrecv),
                           args |-> SubSeq(r.vals, nrecv + 1, Len(r.vals)),
                           got |-> << >>]]
                   /\ pc' = [pc EXCEPT ![c] =
                          IF ImportOf(method[c]) # "" THEN "guest_import" ELSE "guest_ret"]
                   /\ UNCHANGED << rtVars, nested, lock, loadVars, handle, method, args,
                                   packed, res, liveBefore, calls, seen, histVars >>
                \/ /\ NullRegion(packed[c])
                   /\ GuestTrap(c)
                   /\ UNCHANGED heapVars
           ELSE GuestTrap(c) /\ UNCHANGED heapVars

\* the generated guest-side import stub: write_msg(&args), call the extern
GuestCallImport(c) ==
    /\ ~panicked
    /\ pc[c] = "guest_import"
    /\ LET w == write_msg(Heap(StoreOf(c)), ImportArgSchema(ImportOf(method[c])),
                          ImportArgs(method[c]))
       IN  /\ SetHeap(StoreOf(c), w.heap)
           /\ packed' = [packed EXCEPT ![c] = w.packed]
    /\ pc' = [pc EXCEPT ![c] = "host_import"]
    /\ UNCHANGED << rtVars, nested, lock, loadVars, handle, method, args, guest,
                    res, liveBefore, calls, seen, histVars >>

\* mutant: the handler reads the bundle of the store created last
CallerDataOfLatest(c) == data[nstores]

\* caller.data(): the user data of the store the calling guest runs in
CallerData(c) == data[StoreOf(c)]

\* the host service behind an import
Service(i, rc, a) ==
    IF i = "fetch" THEN << StrOK \o a[1] >> ELSE << rc.plugin.data >>

\* mutant: the handler never calls dealloc_fn on the buffer it read
HostImportKeepingArgs(c) ==
    /\ ~panicked
    /\ pc[c] = "host_import"
    /\ CallerData(c).some
    /\ LET i == ImportOf(method[c])
           h == Heap(StoreOf(c))
           pl == from_bitwise(packed[c])
           buffer == memory_read(h, pl[1], pl[2])
           d == De(ImportArgSchema(i), buffer.bytes)
           out == Ser(ImportRetSchema(i), Service(i, CallerData(c), d.vals))
           a == alloc_fn(WasmOf(c), h, AsHalf(Len(out)))
       IN  /\ buffer.ok /\ d.ok /\ a.ok /\ InBounds(a.ptr, AsHalf(Len(out)))
           /\ SetHeap(StoreOf(c), memory_write(a.heap, a.ptr, out))
           /\ packed' = [packed EXCEPT ![c] = into_bitwise(a.ptr, AsHalf(Len(out)))]
           /\ seen' = [seen EXCEPT ![c] =
                  IF i = "who" THEN CallerData(c).plugin ELSE @]
    /\ pc' = [pc EXCEPT ![c] = "guest_import_ret"]
    /\ UNCHANGED << rtVars, nested, lock, loadVars, handle, method, args, guest,
                    res, liveBefore, calls, histVars >>

\* mutant: the handler takes the write lock of the store of its caller
HostImportLocking(c) ==
    /\ ~panicked
    /\ pc[c] = "host_import"
    /\ WriteLockFree(StoreOf(c))
    /\ CallerData(c).some
    /\ LET i == ImportOf(method[c])
           h == Heap(StoreOf(c))
           pl == from_bitwise(packed[c])
           buffer == memory_read(h, pl[1], pl[2])
           h1 == dealloc(h, into_bitwise(pl[1], pl[2]))
           d == De(ImportArgSchema(i), buffer.bytes)
           out == Ser(ImportRetSchema(i), Service(i, CallerData(c), d.vals))
           a == alloc_fn(WasmOf(c), h1, AsHalf(Len(out)))
       IN  /\ buffer.ok /\ d.ok /\ a.ok /\ InBounds(a.ptr, AsHalf(Len(out)))
           /\ SetHeap(StoreOf(c), memory_write(a.heap, a.ptr, out))
           /\ packed' = [packed EXCEPT ![c] = into_bitwise(a.ptr, AsHalf(Len(out)))]
           /\ seen' = [seen EXCEPT ![c] =
                  IF i = "who" THEN CallerData(c).plugin ELSE @]
    /\ pc' = [pc EXCEPT ![c] = "guest_import_ret"]
    /\ UNCHANGED << rtVars, nested, lock, loadVars, handle, method, args, guest,
                    res, liveBefore, calls, histVars >>

\* the generated host import handler _plugy_context_<m>
HostImport(c) ==
    /\ ~panicked
    /\ pc[c] = "host_import"
    /\ CallerData(c).some
    /\ LET i == ImportOf(method[c])
           h == Heap(StoreOf(c))
           pl == from_bitwise(packed[c])
           buffer == memory_read(h, pl[1], pl[2])
           h1 == dealloc(h, into_bitwise(pl[1], pl[2]))
           d == De(ImportArgSchema(i), buffer.bytes)
           out == Ser(ImportRetSchema(i), Service(i, CallerData(c), d.vals))
           a == alloc_fn(WasmOf(c), h1, AsHalf(Len(out)))
       IN  /\ buffer.ok /\ d.ok /\ a.ok /\ InBounds(a.ptr, AsHalf(Len(out)))
           /\ SetHeap(StoreOf(c), memory_write(a.heap, a.ptr, out))
           /\ packed' = [packed EXCEPT ![c] = into_bitwise(a.ptr, AsHalf(Len(out)))]
           /\ seen' = [seen EXCEPT ![c] =
                  IF i = "who" THEN CallerData(c).plugin ELSE @]
    /\ pc' = [pc EXCEPT ![c] = "guest_import_ret"]
    /\ UNCHANGED << rtVars, nested, lock, loadVars, handle, method, args, guest,
                    res, liveBefore, calls, histVars >>

\* the generated guest-side import stub: read_msg(the word the import returned)
GuestImportReturn(c) ==
    /\ ~panicked
    /\ pc[c] = "guest_import_ret"
    /\ LET r == read_msg(Heap(StoreOf(c)), ImportRetSchema(ImportOf(method[c])),
                         packed[c])
       IN  IF r.ok
           THEN \/ /\ SetHeap(StoreOf(c), r.heap)
                   /\ guest' = [guest EXCEPT ![c].got = r.vals[1]]
                   /\ pc' = [pc EXCEPT ![c] = "guest_ret"]
                   /\ UNCHANGED << rtVars, nested, lock, loadVars, handle, method, args,
                                   packed, res, liveBefore, calls, seen, histVars >>
                \/ /\ NullRegion(packed[c])
                   /\ GuestTrap(c)
                   /\ UNCHANGED heapVars
           ELSE GuestTrap(c) /\ UNCHANGED heapVars

\* the user's method body, on the receiver and arguments the stub decoded
MethodResult(m, g) ==
    CASE m = "greet"  -> << StrHi \o g.args[1] \o StrColon \o g.got >>
      [] m = "whoami" -> << g.got >>
      [] m = "bar"    -> BarValue
      [] m = "bump"   -> << AsHalf(g.recv[1] + 1) >>
      [] OTHER        -> << >>

\* what the entry point of the module hands back: the generated stub's
\* write_msg(&value.method(args..)), or what a module built without the
\* macros returns
GuestResult(wasm, h, m, g) ==
    CASE wasm.ret = "beyond" -> [packed |-> into_bitwise(MemorySize, 1), heap |-> h]
      [] wasm.ret = "u32"    -> write_msg(h, << "u32" >>, BarValue)
      [] OTHER               -> write_msg(h, RetSchema(m), MethodResult(m, g))

\* the guest stub: write_msg(&value.method(args..)); foo() panics
GuestReturn(c) ==
    /\ ~panicked
    /\ pc[c] = "guest_ret"
    /\ IF method[c] = "foo"
       THEN GuestTrap(c) /\ UNCHANGED heapVars
       ELSE LET w == GuestResult(WasmOf(c), Heap(StoreOf(c)), method[c], guest[c])
            IN  /\ SetHeap(StoreOf(c), w.heap)
                /\ packed' = [packed EXCEPT ![c] = w.packed]
                /\ pc' = [pc EXCEPT ![c] = "host_read"]
                /\ UNCHANGED << rtVars, nested, lock, loadVars, handle, method, args,
                                guest, res, liveBefore, calls, seen, histVars >>

\* call_checked: from_bitwise, memory.read, deserialize, return
HostRecv(c) ==
    /\ ~panicked
    /\ pc[c] = "host_read"
    /\ LET pl == from_bitwise(packed[c])
           buffer == memory_read(Heap(StoreOf(c)), pl[1], pl[2])
           d == De(RetSchema(method[c]), buffer.bytes)
       IN  IF ~buffer.ok THEN Surface(c, "memory")
           ELSE IF ~d.ok THEN Surface(c, "decode")
           ELSE /\ res' = [res EXCEPT ![c] = Ok(d.vals)]
                /\ pc' = [pc EXCEPT ![c] = "returned"]
    /\ Release(c)
    /\ bumps' = [bumps EXCEPT ![StoreOf(c)] = IF method[c] = "bump" THEN @ + 1 ELSE @]
    /\ UNCHANGED << rtVars, nested, heapVars, loadVars, handle, method, args, packed,
                    guest, liveBefore, calls, seen, registered, failedCtx,
                    trapped, lastInsert, ticket >>

\* the positions where call_checked is suspended while it holds the write
\* guard: awaiting alloc_fn.call_async or inner_wasm_fn.call_async (the
\* guest entry point and the host imports it calls)
SuspensionPcs == {"locked", "guest_entry", "guest_import", "host_import",
                  "guest_import_ret", "guest_ret"}

\* mutant: the dropped future keeps the write guard
CancelKeepingLock(c) ==
    /\ ~panicked
    /\ pc[c] \in SuspensionPcs
    /\ pc' = [pc EXCEPT ![c] = "cancelled"]
    /\ res' = [res EXCEPT ![c] = Err("cancelled")]
    /\ UNCHANGED << rtVars, nested, lock, heapVars, loadVars, handle, method, args,
                    packed, guest, liveBefore, calls, seen, histVars >>

\* the caller drops the future of call_checked at a suspension point: its
\* locals are dropped, the write guard among them; guest memory stays as it is
Cancel(c) ==
    /\ ~panicked
    /\ pc[c] \in SuspensionPcs
    /\ pc' = [pc EXCEPT ![c] = "cancelled"]
    /\ res' = [res EXCEPT ![c] = Err("cancelled")]
    /\ Release(c)
    /\ UNCHANGED << rtVars, nested, heapVars, loadVars, handle, method, args,
                    packed, guest, liveBefore, calls, seen, histVars >>

\* the application has looked at the result
Finish(c) ==
    /\ ~panicked
    /\ pc[c] \in {"returned", "cancelled"}
    /\ pc' = [pc EXCEPT ![c] = "idle"]
    /\ method' = [method EXCEPT ![c] = ""]
    /\ args' = [args EXCEPT ![c] = << >>]
    /\ packed' = [packed EXCEPT ![c] = 0]
    /\ guest' = [guest EXCEPT ![c] = NoGuest]
    /\ res' = [res EXCEPT ![c] = NoRes]
    /\ liveBefore' = [liveBefore EXCEPT ![c] = 0]
    /\ seen' = [seen EXCEPT ![c] = NoPlugin]
    /\ ticket' = [ticket EXCEPT ![c] = 0]
    /\ UNCHANGED << rtVars, nested, lock, heapVars, loadVars, handle, calls,
                    registered, failedCtx, trapped, bumps, lastInsert >>

\* ---- a context service that calls a plugin from inside the import handler
\* the service body the generated handler awaits may hold a PluginHandle and
\* await get_func / call_checked on it; the outer call_checked of the task
\* still holds the write guard of its own store meanwhile

\* mutant: the store lock admits the task that already holds it
NestedLockReentrant(c, y) == lock[y] \in {0, c}

\* self.store.write().await inside the service: tokio's RwLock is not re-entrant
NestedLockFree(c, y) == WriteLockFree(y)

\* the handler run of the task's current call has awaited an inner call
Nesting(c) == nested[c].ticket = ticket[c] /\ ticket[c] # 0

\* the service starts an inner call on a handle to store y: through
\* get_func ("get_func") or on a Func it already holds ("call")
NestedStart(c, y, at) ==
    /\ ~panicked
    /\ pc[c] = "host_import"
    /\ CallerData(c).some
    /\ ~Nesting(c)
    /\ \E d \in Callers : handle[d].store = y
    /\ nested' = [nested EXCEPT ![c] = [store |-> y, at |-> at, ticket |-> ticket[c]]]
    /\ UNCHANGED << rtVars, lock, heapVars, loadVars, taskVars, histVars >>

\* get_func inside the service: store.write().await for the export lookup
NestedGetFunc(c) ==
    /\ ~panicked
    /\ pc[c] = "host_import"
    /\ Nesting(c)
    /\ nested[c].at = "get_func"
    /\ NestedLockFree(c, nested[c].store)
    /\ nested' = [nested EXCEPT ![c].at = "call"]
    /\ UNCHANGED << rtVars, lock, heapVars, loadVars, taskVars, histVars >>

\* call_checked inside the service: let mut store = self.store.write().await
NestedAcquire(c) ==
    /\ ~panicked
    /\ pc[c] = "host_import"
    /\ Nesting(c)
    /\ nested[c].at = "call"
    /\ NestedLockFree(c, nested[c].store)
    /\ lock' = [lock EXCEPT ![nested[c].store] = c]
    /\ nested' = [nested EXCEPT ![c].at = "locked"]
    /\ UNCHANGED << rtVars, heapVars, loadVars, taskVars, histVars >>

\* the inner call_checked of bar() runs under the guard it holds: the guest
\* writes the result, the host reads it, the guard is dropped on return
NestedRun(c) ==
    /\ ~panicked
    /\ pc[c] = "host_import"
    /\ Nesting(c)
    /\ nested[c].at = "locked"
    /\ LET y == nested[c].store
           w == GuestResult(Loaders[inst[y]].wasm, Heap(y), "bar", NoGuest)
       IN  /\ SetHeap(y, w.heap)
           /\ lock' = [lock EXCEPT ![y] = 0]
    /\ nested' = [nested EXCEPT ![c].at = "done"]
    /\ UNCHANGED << rtVars, loadVars, taskVars, histVars >>

\* the service returns once its inner call has; the handler then answers
NestedHostImport(c) ==
    /\ Nesting(c)
    /\ nested[c].at = "done"
    /\ HostImport(c)


\* the loaders whose modules obey the guest ABI
GoodLoaders == {k \in 1 .. Len(Loaders) :
                   /\ Loaders[k].bytesOk
                   /\ Loaders[k].wasm.valid
                   /\ Loaders[k].wasm.startOk
                   /\ Loaders[k].wasm.imports \subseteq UNION {ServiceMethods(v) : v \in Services}
                   /\ AbiExports \subseteq Loaders[k].wasm.exports
                   /\ Loaders[k].wasm.allocOk
                   /\ Loaders[k].wasm.ret = "ok"
                   /\ Loaders[k].wasm.startImport = ""}

CallStep(c) ==
    \/ \E m \in Methods : \E a \in ArgsOf(m) : Submit(c, m, a)
    \/ GetFunc(c)
    \/ Acquire(c)
    \/ HostSend(c)
    \/ GuestEntry(c)
    \/ GuestCallImport(c)
    \/ HostImport(c)
    \/ GuestImportReturn(c)
    \/ GuestReturn(c)
    \/ HostRecv(c)
    \/ Finish(c)

\* the application: setup, one load at a time, concurrent calls
Next ==
    \/ \E svc \in Services : ServiceMethods(svc) \cap linker = {} /\ Context(svc)
    \/ \E k \in GoodLoaders : LoadPrepare(1, k)
    \/ LoadInsert(1)
    \/ LoadGet(1)
    \/ \E c \in Callers : TakeHandle(1, c)
    \/ DropResult(1)
    \/ \E c \in Callers, n \in Names : GetPlugin(c, n)
    \/ \E c \in Callers : CallStep(c)

Spec == Init /\ [][Next]_vars

\* the loaders that differ in how their load goes
LoadCases == {k \in 1 .. Len(Loaders) :
                 /\ Loaders[k].wasm.allocOk
                 /\ Loaders[k].wasm.ret = "ok"
                 /\ Loaders[k].wasm.startImport = ""}

\* the application: setup, concurrent loads of any loader, lookups
NextLoad ==
    \/ \E svc \in AllServices : Context(svc)
    \/ \E l \in LoadIds, k \in LoadCases : LoadPrepare(l, k)
    \/ \E l \in LoadIds : LoadInsert(l)
    \/ \E l \in LoadIds : LoadGet(l)
    \/ \E l \in LoadIds, c \in Callers : TakeHandle(l, c)
    \/ \E l \in LoadIds : DropResult(l)
    \/ \E c \in Callers, n \in Names : GetPlugin(c, n)
    \/ \E c \in Callers, k \in LoadCases : GetPluginOfType(c, k)

SpecLoad == Init /\ [][NextLoad]_vars

\* the loaders of the fault scenarios: plugy's alloc and an alloc of its own
FaultLoaders == {1, 11}

FaultStep(c) ==
    \/ Submit(c, "greet", << NameAda >>)
    \/ GetFunc(c)
    \/ Acquire(c)
    \/ HostSend(c)
    \/ GuestEntry(c)
    \/ GuestCallImport(c)
    \/ HostImport(c)
    \/ GuestImportReturn(c)
    \/ GuestReturn(c)
    \/ HostRecv(c)
    \/ Cancel(c)
    \/ Finish(c)

\* the application: setup, one load at a time, concurrent calls that may be
\* dropped mid-flight, on modules with either alloc
NextFault ==
    \/ \E svc \in Services : ServiceMethods(svc) \cap linker = {} /\ Context(svc)
    \/ \E k \in FaultLoaders : LoadPrepare(1, k)
    \/ LoadInsert(1)
    \/ LoadGet(1)
    \/ \E c \in Callers : TakeHandle(1, c)
    \/ \E c \in Callers, n \in {"A", "B"} : GetPlugin(c, n)
    \/ \E c \in Callers : FaultStep(c)

SpecFault == Init /\ [][NextFault]_vars

\* the steps of a call that holds the write guard
InFlight(c) ==
    \/ HostSend(c)
    \/ GuestEntry(c)
    \/ GuestCallImport(c)
    \/ HostImport(c)
    \/ GuestImportReturn(c)
    \/ GuestReturn(c)
    \/ HostRecv(c)

\* the executor polls every task that is ready, and the write lock of
\* tokio's RwLock is handed out in FIFO order: a task that is not dropped
\* makes its next step, and a task waiting for the lock gets it
FairFault ==
    /\ SpecFault
    /\ \A c \in Callers : WF_vars(InFlight(c)) /\ SF_vars(Acquire(c))

\* the loaders of the ABI scenarios: a module built with plugy's macros and
\* modules whose alloc or whose entry points misbehave
AbiLoaders == {1, 12, 13, 14, 15}

AbiStep(c) ==
    \/ Submit(c, "greet", << NameAda >>)
    \/ Submit(c, "foo", << >>)
    \/ GetFunc(c)
    \/ Acquire(c)
    \/ HostSend(c)
    \/ GuestEntry(c)
    \/ GuestCallImport(c)
    \/ HostImport(c)
    \/ GuestImportReturn(c)
    \/ GuestReturn(c)
    \/ HostRecv(c)
    \/ Finish(c)

\* the application: setup, one load at a time, concurrent calls on modules
\* that keep to the guest ABI and on modules that do not
NextAbi ==
    \/ \E svc \in Services : ServiceMethods(svc) \cap linker = {} /\ Context(svc)
    \/ \E k \in AbiLoaders : LoadPrepare(1, k)
    \/ LoadInsert(1)
    \/ LoadGet(1)
    \/ \E c \in Callers : TakeHandle(1, c)
    \/ \E c \in Callers, n \in {"A", "B"} : GetPlugin(c, n)
    \/ \E c \in Callers : AbiStep(c)

SpecAbi == Init /\ [][NextAbi]_vars

\* the loaders of the handle scenarios: two names, one of them not the
\* type name of its loader
HandleLoaders == {1, 2}

HandleStep(c) ==
    \/ Submit(c, "whoami", << >>)
    \/ Submit(c, "bar", << >>)
    \/ GetFunc(c)
    \/ Acquire(c)
    \/ HostSend(c)
    \/ GuestEntry(c)
    \/ GuestCallImport(c)
    \/ HostImport(c)
    \/ GuestImportReturn(c)
    \/ GuestReturn(c)
    \/ HostRecv(c)
    \/ Finish(c)

\* the application: setup, loads, and calls through handles of every
\* origin; task 1 keeps the handles load returns, task 2 looks its handles
\* up by name or by type or clones them from task 1
NextHandles ==
    \/ \E svc \in AllServices : Context(svc)
    \/ \E k \in HandleLoaders : LoadPrepare(1, k)
    \/ LoadInsert(1)
    \/ LoadGet(1)
    \/ TakeHandle(1, 1)
    \/ DropResult(1)
    \/ \E n \in Names : GetPlugin(2, n)
    \/ \E k \in HandleLoaders : GetPluginOfType(2, k)
    \/ CloneHandle(1, 2)
    \/ \E c \in Callers : HandleStep(c)

SpecHandles == Init /\ [][NextHandles]_vars

\* the loaders of the release scenarios, one for each way a call ends:
\* success, a failed write, a trapped alloc, a failed read of the result
\* and a failed decode of the result; foo() traps in the guest
ReleaseLoaders == {1, 11, 13, 14, 15}

ReleaseStep(c) ==
    \/ Submit(c, "greet", << NameAda >>)
    \/ Submit(c, "foo", << >>)
    \/ GetFunc(c)
    \/ Acquire(c)
    \/ InFlight(c)
    \/ Finish(c)

\* the application: setup, one load, lookups by name, concurrent calls
NextRelease ==
    \/ \E svc \in Services : ServiceMethods(svc) \cap linker = {} /\ Context(svc)
    \/ \E k \in ReleaseLoaders : LoadPrepare(1, k)
    \/ LoadInsert(1)
    \/ LoadGet(1)
    \/ \E c \in Callers, n \in {"A", "B"} : GetPlugin(c, n)
    \/ \E c \in Callers : ReleaseStep(c)

SpecRelease == Init /\ [][NextRelease]_vars

\* the executor polls every task that is ready, and the write lock of
\* tokio's RwLock is handed out in FIFO order: a call in flight makes its
\* next step, and a task waiting for the lock, in get_func or in
\* call_checked, gets it
FairRelease ==
    /\ SpecRelease
    /\ \A c \in Callers :
          WF_vars(InFlight(c)) /\ SF_vars(Acquire(c)) /\ SF_vars(GetFunc(c))

\* the loaders of the start scenarios: a module without a start function
\* and a module whose start function calls a host import
StartLoaders == {1, 16}

StartStep(c) ==
    \/ Submit(c, "whoami", << >>)
    \/ GetFunc(c)
    \/ Acquire(c)
    \/ InFlight(c)
    \/ Finish(c)

\* the application: setup, concurrent loads, calls that use a host import
NextStart ==
    \/ \E svc \in Services : ServiceMethods(svc) \cap linker = {} /\ Context(svc)
    \/ \E l \in LoadIds, k \in StartLoaders : LoadPrepare(l, k)
    \/ \E l \in LoadIds : StartImport(l)
    \/ \E l \in LoadIds : LoadInsert(l)
    \/ \E l \in LoadIds : LoadGet(l)
    \/ \E l \in LoadIds, c \in Callers : TakeHandle(l, c)
    \/ \E c \in Callers : StartStep(c)

SpecStart == Init /\ [][NextStart]_vars

\* ---- specification for context services that call plugins -----------------

ReentrantLoaders == {1, 2}

ReentrantStep(c) ==
    \/ Submit(c, "whoami", << >>)
    \/ GetFunc(c)
    \/ Acquire(c)
    \/ HostSend(c)
    \/ GuestEntry(c)
    \/ GuestCallImport(c)
    \/ \E y \in Stores, at \in {"get_func", "call"} : NestedStart(c, y, at)
    \/ NestedGetFunc(c)
    \/ NestedAcquire(c)
    \/ NestedRun(c)
    \/ NestedHostImport(c)
    \/ GuestImportReturn(c)
    \/ GuestReturn(c)
    \/ HostRecv(c)
    \/ Finish(c)

\* the application: setup, loads, calls whose import handler calls a plugin
NextReentrant ==
    \/ \E svc \in Services : ServiceMethods(svc) \cap linker = {} /\ Context(svc)
    \/ \E k \in ReentrantLoaders : LoadPrepare(1, k)
    \/ LoadInsert(1)
    \/ LoadGet(1)
    \/ \E c \in Callers : TakeHandle(1, c)
    \/ \E c \in Callers : ReentrantStep(c)

SpecReentrant == Init /\ [][NextReentrant]_vars

\* the pair codec applied to a pair and back: test::bitwise, for any pair
PackUnpack(c, a, b) ==
    /\ ~panicked
    /\ pc[c] = "idle"
    /\ method' = [method EXCEPT ![c] = "into_bitwise"]
    /\ args' = [args EXCEPT ![c] = << a, b >>]
    /\ packed' = [packed EXCEPT ![c] = into_bitwise(a, b)]
    /\ res' = [res EXCEPT ![c] = Ok(from_bitwise(into_bitwise(a, b)))]
    /\ UNCHANGED << rtVars, nested, lock, heapVars, loadVars, pc, handle, guest,
                    liveBefore, calls, seen, histVars >>

\* the pair codec applied to a word and back
UnpackPack(c, v) ==
    /\ ~panicked
    /\ pc[c] = "idle"
    /\ method' = [method EXCEPT ![c] = "from_bitwise"]
    /\ args' = [args EXCEPT ![c] = << v >>]
    /\ packed' = [packed EXCEPT ![c] =
           into_bitwise(from_bitwise(v)[1], from_bitwise(v)[2])]
    /\ res' = [res EXCEPT ![c] = Ok(from_bitwise(v))]
    /\ UNCHANGED << rtVars, nested, lock, heapVars, loadVars, pc, handle, guest,
                    liveBefore, calls, seen, histVars >>

\* the pair codec on every pair of halves and on every word
NextBitwise ==
    \/ \E a, b \in 0 .. (Half - 1) : PackUnpack(1, a, b)
    \/ \E v \in 0 .. (Word - 1) : UnpackPack(1, v)

SpecBitwise == Init /\ [][NextBitwise]_vars

(***************************************************************************)
(* Properties.                                                             *)
(***************************************************************************)
InCallPcs == {"locked", "guest_entry", "guest_import", "host_import",
              "guest_import_ret", "guest_ret", "host_read"}
\* the task holds the store lock inside call_checked
InCall(c) == pc[c] \in InCallPcs
\* call_checked has ended for the task, by return or by panic
Ended(c) == pc[c] \in {"returned", "panicked"}
UnitLoaded(c) == handle[c] # NoHandle /\ WasmOf(c) = UnitWasm
CounterLoaded(c) == handle[c] # NoHandle /\ WasmOf(c) = CounterWasm

\* C1: when a call_checked returns successfully, the number of live guest
\* buffers of the instance equals the number when the call took the lock
\* (input freed by the guest stub, output freed by the host).
C1_LiveBuffersRestored ==
    [][\A c \in Callers :
          (pc[c] = "host_read" /\ pc'[c] = "returned" /\ res'[c].ok)
          => Cardinality(live'[StoreOf(c)]) = liveBefore[c]]_vars

\* C2: no two tasks are inside call_checked (between taking the store write
\* lock and returning) on the same store at the same time.
C2_OneCallInFlight ==
    \A c, d \in Callers :
        (c # d /\ InCall(c) /\ InCall(d)) => StoreOf(c) # StoreOf(d)

\* C2 witness: one task is inside a call on a store while another task waits
\* for the lock of the same store.
C2_Witness ==
    \E c, d \in Callers :
        /\ c # d /\ InCall(c) /\ pc[d] = "call"
        /\ StoreOf(c) = StoreOf(d)

\* C3: a call waiting for the lock of its store can take it whenever no other
\* call is in flight on that same store, whatever calls are in flight on
\* other stores; and while a call is in flight on another store, a call in
\* flight can always take its next step.
C3_DistinctStoresNeverContend ==
    \A c \in Callers :
        /\ (pc[c] = "call"
            /\ \A d \in Callers \ {c} : InCall(d) => StoreOf(d) # StoreOf(c))
           => ENABLED Acquire(c)
        /\ (InCall(c) /\ \E d \in Callers \ {c} : InCall(d)) =>
              ENABLED (\/ HostSend(c) \/ GuestEntry(c) \/ GuestCallImport(c)
                       \/ HostImport(c) \/ GuestImportReturn(c)
                       \/ GuestReturn(c) \/ HostRecv(c))

\* C3 witness: two calls are in flight at once, on two different stores.
C3_Witness ==
    \E c, d \in Callers :
        /\ InCall(c) /\ InCall(d)
        /\ StoreOf(c) # StoreOf(d)
        /\ pc[c] = "host_import"

\* the loader cannot be loaded: its bytes, module or imports are bad
Broken(k) ==
    \/ ~Loaders[k].bytesOk
    \/ ~Loaders[k].wasm.valid
    \/ ~Loaders[k].wasm.startOk
    \/ ~(AbiExports \subseteq Loaders[k].wasm.exports)
    \/ ~(Loaders[k].wasm.imports \subseteq linker)

\* C4: a load of a loader that fails before the insert returns an error and
\* leaves the registry map exactly as it was.
C4_FailedLoadLeavesRegistry ==
    [][\A l \in LoadIds :
          (lpc[l] = "idle" /\ lpc'[l] # "idle" /\ Broken(lk'[l]))
          => /\ lpc'[l] = "returned"
             /\ ~lres'[l].ok
             /\ modules' = modules]_vars

\* C4 witness: with a record in the registry, loads have failed on a missing
\* dealloc export and on an unresolved import.
C4_Witness ==
    /\ modules["A"] # NoModule
    /\ \E l, j \in LoadIds :
          /\ lpc[l] = "returned" /\ lres[l].err = "dealloc"
          /\ lpc[j] = "returned" /\ lres[j].err = "link"
          /\ Loaders[lk[l]].name = "A"

\* C5: every record of the registry has a store whose user data is Some
\* bundle with memory, alloc and dealloc resolved.
C5_RecordsHaveSymbols ==
    \A n \in Names :
        modules[n] # NoModule
        => /\ data[modules[n].store].some
           /\ data[modules[n].store].memory # 0
           /\ data[modules[n].store].alloc_fn # 0
           /\ data[modules[n].store].dealloc_fn # 0

\* C5 witness: a record is in the registry and a load of a module without
\* dealloc, under the same name, has returned.
C5_Witness ==
    \E l \in LoadIds :
        /\ lpc[l] = "returned"
        /\ lres[l].err = "dealloc"
        /\ modules[Loaders[lk[l]].name] # NoModule

\* what the method computes from the arguments the application passed
Expected(c) ==
    CASE method[c] = "greet"  -> << StrHi \o args[c][1] \o StrColon \o StrOK \o StrU >>
      [] method[c] = "whoami" -> << Loaders[inst[StoreOf(c)]].tenant >>
      [] method[c] = "bar"    -> BarValue
      [] OTHER                -> << >>

C7_BumpCounts ==
    [][\A c \in Callers :
          (InCall(c) /\ method[c] = "bump" /\ CounterLoaded(c) /\ pc'[c] \notin InCallPcs)
          => res'[c] = Ok(<< bumps'[StoreOf(c)] >>)]_vars

\* C8: when the guest entry point traps, the error reaches the caller, the
\* store lock is released and the registry is unchanged; after a trap on a
\* store, a call of bar() through a handle to that store still returns its
\* value, and a call waiting for the lock can take it.
C8_TrapLeavesInstanceUsable ==
    /\ [][\A c \in Callers :
             (InCall(c) /\ res'[c].err = "guest trap")
             => /\ Ended(c)' /\ ~res'[c].ok
                /\ lock'[StoreOf(c)] = 0
                /\ modules' = modules]_vars
    /\ [](\A c \in Callers :
             /\ (pc[c] = "returned" /\ method[c] = "bar" /\ UnitLoaded(c))
                => res[c] = Ok(BarValue)
             /\ (pc[c] = "call" /\ \A d \in Callers \ {c} : ~InCall(d))
                => ENABLED Acquire(c))

\* C8 witness: a call of bar() has returned its value on a store where a
\* guest entry point trapped before.
C8_Witness ==
    \E c \in Callers :
        /\ pc[c] = "returned" /\ method[c] = "bar" /\ res[c].ok
        /\ trapped[StoreOf(c)]

\* C9: the descriptor an import handler observes during a call on a store is
\* the one the loader of that store was converted into at load time.
C9_HandlerSeesOwnDescriptor ==
    \A c \in Callers :
        (method[c] = "whoami"
         /\ pc[c] \in {"guest_import_ret", "guest_ret", "host_read"})
        => seen[c] = IntoPlugin(Loaders[inst[StoreOf(c)]])

\* C9 witness: two tasks have each had a handler run, on two stores with
\* different descriptors.
C9_Witness ==
    \E c, d \in Callers :
        /\ seen[c] # NoPlugin /\ seen[d] # NoPlugin
        /\ seen[c] # seen[d]
        /\ pc[c] = "guest_import_ret" /\ pc[d] = "guest_import_ret"

\* C10: the registry holds under each name the record of the latest insert
\* under that name, a lookup of the name returns a handle to it, and a load
\* of a loadable module under a name already taken returns a handle.
C10_DuplicateLoadReplaces ==
    /\ \A n \in Names :
          lastInsert[n] # 0
          => /\ modules[n] = RuntimeModule(lastInsert[n])
             /\ get_plugin_by_name(n).ok
             /\ get_plugin_by_name(n).handle.store = lastInsert[n]
    /\ \A l \in LoadIds :
          (lpc[l] = "returned" /\ lstore[l] # 0) => lres[l].ok

\* C10 witness: two loads under the name A have succeeded, and a lookup of A
\* returned a handle to the store of the second.
C10_Witness ==
    /\ nstores = 2
    /\ Loaders[inst[1]].name = "A" /\ Loaders[inst[2]].name = "A"
    /\ lastInsert["A"] = 2
    /\ \A l \in LoadIds : lpc[l] = "idle"
    /\ \E c \in Callers : handle[c].store = 2

\* C11: a lookup by name or by type of a key with no record returns the
\* "missing plugin" error and a lookup of a key with a record returns a
\* handle to that record; a lookup that returns the error leaves the registry
\* and the handles as they were and does not panic.
C11_MissingLookupErrors ==
    /\ [](\A n \in Names :
             IF modules[n] = NoModule
             THEN ~get_plugin_by_name(n).ok
                  /\ get_plugin_by_name(n).err = "missing plugin"
             ELSE get_plugin_by_name(n).ok
                  /\ get_plugin_by_name(n).handle.store = modules[n].store)
    /\ [](\A k \in 1 .. Len(Loaders) :
             IF modules[Loaders[k].ty] = NoModule
             THEN ~get_plugin(k).ok /\ get_plugin(k).err = "missing plugin"
             ELSE get_plugin(k).ok
                  /\ get_plugin(k).handle.store = modules[Loaders[k].ty].store)
    /\ [][\A c \in Callers :
             (res'[c].err = "missing plugin" /\ res[c].err # "missing plugin")
             => modules' = modules /\ handle' = handle /\ ~panicked']_vars

\* C11 witness: one task got the missing-plugin error while another task
\* holds a handle to the record loaded under A.
C11_Witness ==
    /\ ~panicked
    /\ modules["A"] # NoModule
    /\ \E c, d \in Callers :
          /\ res[c].err = "missing plugin" /\ handle[c] = NoHandle
          /\ handle[d] = PluginHandle(modules["A"])

\* C12: the lookup by type succeeds exactly when a record is under the type
\* name of the loader; for a loader whose name() is its type name it returns
\* what the lookup by that name returns; for a loaded loader whose name()
\* differs from its type name it reports a missing plugin.
C12_TypeNameKey ==
    \A k \in 1 .. Len(Loaders) :
        /\ get_plugin(k).ok <=> modules[Loaders[k].ty] # NoModule
        /\ Loaders[k].name = Loaders[k].ty
           => get_plugin(k) = get_plugin_by_name(Loaders[k].name)
        /\ (/\ Loaders[k].name # Loaders[k].ty
            /\ modules[Loaders[k].name] # NoModule
            /\ inst[modules[Loaders[k].name].store] = k)
           => /\ get_plugin_by_name(Loaders[k].name).ok
              /\ ~get_plugin(k).ok
              /\ get_plugin(k).err = "missing plugin"

\* C12 witness: loader 2, whose name() B is not its type name, is loaded
\* under B, a record is under A, one task holds the handle of A and another
\* got the missing-plugin error after both loads.
C12_Witness ==
    /\ modules["B"] # NoModule /\ inst[modules["B"].store] = 2
    /\ modules["A"] # NoModule
    /\ \A l \in LoadIds : lpc[l] = "idle"
    /\ \E c, d \in Callers :
          /\ handle[d] = PluginHandle(modules["A"])
          /\ res[c].err = "missing plugin"

\* C13: a context() call for a service that is already registered succeeds:
\* no registered service is the one whose registration failed.
C13_ContextIdempotent ==
    \A svc \in registered : failedCtx # svc

\* C14: two services that declare the same method are never both registered;
\* a registration fails only on a name that is already defined, and it fails
\* in the context() call itself, by a panic of the thread that owns the
\* runtime; nothing else panics that thread.
C14_ConflictFailsAtRegistration ==
    /\ \A s, t \in registered :
          s # t => ServiceMethods(s) \cap ServiceMethods(t) = {}
    /\ failedCtx # "" =>
          /\ panicked
          /\ \E s \in registered : ServiceMethods(failedCtx) \cap ServiceMethods(s) # {}
    /\ panicked => failedCtx # ""
    /\ UNION {ServiceMethods(s) : s \in registered} \subseteq linker

\* C14 witness: Who is registered and the registration of Audit, which also
\* declares who(), panicked after it had defined log.
C14_Witness ==
    /\ panicked
    /\ failedCtx = "Audit"
    /\ "Who" \in registered
    /\ "log" \in linker

\* the task is inside its guest entry point
InGuest(c) == pc[c] \in {"guest_import", "host_import", "guest_import_ret", "guest_ret"}

\* C15: when two calls are submitted on handles to the same store, the guest
\* entry point of the one submitted later is invoked only after the guest
\* entry point of the one submitted earlier has completed.
C15_SubmissionOrder ==
    \A c, d \in Callers :
        (/\ c # d
         /\ ticket[c] # 0 /\ ticket[c] < ticket[d]
         /\ StoreOf(c) = StoreOf(d)
         /\ InGuest(d))
        => pc[c] \in {"host_read", "returned", "panicked"}

\* C16: packing a pair of halves puts the first field in the low half and
\* the second in the high half of a word, without overflow, and unpacking
\* gives the pair back; unpacking a word gives its low and high halves, and
\* packing them gives the word back.
C16_BitwiseBijection ==
    \A c \in Callers :
        /\ method[c] = "into_bitwise"
           => /\ packed[c] = args[c][1] + Half * args[c][2]
              /\ packed[c] \in 0 .. (Word - 1)
              /\ res[c].val = args[c]
        /\ method[c] = "from_bitwise"
           => /\ res[c].val = << args[c][1] % Half, args[c][1] \div Half >>
              /\ res[c].val[1] \in 0 .. (Half - 1)
              /\ res[c].val[2] \in 0 .. (Half - 1)
              /\ packed[c] = args[c][1]

\* C16 witness: the pair of the two largest halves was packed into the
\* largest word and unpacked.
C16_Witness ==
    /\ method[1] = "into_bitwise"
    /\ args[1] = << Half - 1, Half - 1 >>
    /\ packed[1] = Word - 1
    /\ res[1].val = << Half - 1, Half - 1 >>

C19_TupleLayoutAgrees ==
    \A c \in Callers :
        pc[c] = "guest_entry"
        => WrapperSchema(method[c]) = StubSchema(WasmOf(c), method[c])

\* C18: when the future of a call is dropped at a suspension point after the
\* write lock was acquired, the lock of its store is released in that step
\* and the registry is untouched; a lock is only ever held by a call in
\* flight on that store; and every call waiting for the lock gets it
C18_CancellationReleasesLock ==
    /\ [][\A c \in Callers :
             (pc[c] \in SuspensionPcs /\ pc'[c] = "cancelled")
                 => /\ lock[StoreOf(c)] = c
                    /\ lock'[StoreOf(c)] = 0
                    /\ modules' = modules
                    /\ handle' = handle]_vars
    /\ [](\A s \in Stores :
             lock[s] # 0 => InCall(lock[s]) /\ StoreOf(lock[s]) = s)
    /\ \A c \in Callers : (pc[c] = "call") ~> (pc[c] # "call")

\* one call was dropped while it held the lock of a store, and a later call
\* on the same handle has acquired it and run the guest to its return
C18_Witness ==
    \E c \in Callers : \E d \in Callers \ {c} :
        /\ pc[d] = "cancelled"
        /\ handle[c] = handle[d]
        /\ pc[c] = "host_read"
        /\ lock[StoreOf(c)] = c

\* C20: when the write of the serialized input into the region alloc_fn
\* returned fails, the region is deallocated before the error reaches the
\* caller (the store has as many live regions as when the lock was taken)
\* and the guest entry point is not invoked
C20_FailedWriteDeallocates ==
    [][\A c \in Callers :
          (pc[c] = "locked" /\ res'[c].err = "memory")
              => /\ Cardinality(live'[StoreOf(c)]) = liveBefore[c]
                 /\ pc'[c] \in {"returned", "panicked"}
                 /\ guest'[c] = NoGuest]_vars

\* C21: when the alloc export traps, or returns offset 0 for a non-empty
\* input, the call ends there with an allocation error: guest memory is not
\* written and the guest entry point is not invoked
C21_AllocFailureStopsCall ==
    [][\A c \in Callers :
          LET len == AsHalf(Len(Ser(WrapperSchema(method[c]), args[c])))
              a == alloc_fn(WasmOf(c), Heap(StoreOf(c)), len)
          IN  (/\ pc[c] = "locked"
               /\ pc'[c] # "locked"
               /\ ~a.ok \/ (a.ptr = 0 /\ len # 0))
                  => /\ res'[c].err = "allocation"
                     /\ pc'[c] \in {"returned", "panicked"}
                     /\ mem' = mem]_vars

\* the positions of a call whose input has been written to guest memory
AfterWritePcs == {"guest_entry", "guest_import", "host_import",
                  "guest_import_ret", "guest_ret", "host_read"}

\* C22: a call that fails after its input was written (guest trap, failed
\* read of the result, failed decode of the result) ends with at most one
\* more live guest buffer in its store than when it took the lock
C22_FailedCallLeaksAtMostOne ==
    [][\A c \in Callers :
          (/\ pc[c] \in AfterWritePcs
           /\ pc'[c] \in {"returned", "panicked"}
           /\ ~res'[c].ok)
              => /\ res'[c].err \in {"guest trap", "memory", "decode"}
                 /\ Cardinality(live'[StoreOf(c)]) <= liveBefore[c] + 1]_vars

\* a call failed at the decode of its result and left exactly one buffer
C22_Witness ==
    \E c \in Callers :
        /\ pc[c] \in {"returned", "panicked"}
        /\ res[c].err = "decode"
        /\ lock[StoreOf(c)] = 0
        /\ Cardinality(live[StoreOf(c)]) = liveBefore[c] + 1

\* the non-empty region a packed word describes
Region(value) ==
    IF from_bitwise(value)[2] = 0 THEN {} ELSE {from_bitwise(value)[1]}

\* C23: every run of a host import handler reads the bytes the incoming
\* word describes, frees that region once (it was live, it is freed, the
\* other regions stay), invokes the service on the decoded bytes, and
\* returns a word that describes a region allocated after the free, which
\* holds exactly the serialized result
C23_HandlerMarshalling ==
    [][\A c \in Callers :
          (pc[c] = "host_import" /\ pc'[c] = "guest_import_ret")
              => LET s == StoreOf(c)
                     i == ImportOf(method[c])
                     pl == from_bitwise(packed[c])
                     read == memory_read(Heap(s), pl[1], pl[2])
                     out == Ser(ImportRetSchema(i),
                                Service(i, data[s], De(ImportArgSchema(i), read.bytes).vals))
                     np == from_bitwise(packed'[c])
                 IN  /\ read.ok
                     /\ Region(packed[c]) \subseteq live[s]
                     /\ np[2] = Len(out)
                     /\ Region(packed'[c]) \cap (live[s] \ Region(packed[c])) = {}
                     /\ live'[s] = (live[s] \ Region(packed[c])) \cup Region(packed'[c])
                     /\ out # << >> => mem'[s][np[1]] = out
                     /\ \A p \in Addrs \ Region(packed'[c]) : mem'[s][p] = mem[s][p]]_vars

\* a handler has run on a non-empty argument buffer and its result sits in
\* the region that buffer occupied
C23_Witness ==
    \E c \in Callers :
        /\ pc[c] = "guest_import_ret"
        /\ method[c] = "greet"
        /\ Region(packed[c]) # {}
        /\ Region(packed[c]) \subseteq live[StoreOf(c)]
        /\ mem[StoreOf(c)][from_bitwise(packed[c])[1]]
               = Ser(<< "str" >>, << StrOK \o StrU >>)

\* C24: a host import handler runs while the call that triggered it holds
\* the write lock of its store; the handler can run in that state (it takes
\* no lock itself), it leaves the lock and the guest's locals as they are,
\* and the guest resumes only from the handler's return
C24_HandlerInsideCriticalSection ==
    /\ [](\A c \in Callers :
             pc[c] = "host_import"
                 => lock[StoreOf(c)] = c /\ ENABLED HostImport(c))
    /\ [][\A c \in Callers :
             /\ (pc[c] = "host_import" /\ pc'[c] # "host_import")
                    => /\ pc'[c] = "guest_import_ret"
                       /\ lock' = lock
                       /\ guest'[c] = guest[c]
             /\ pc'[c] = "host_import" => pc[c] \in {"guest_import", "host_import"}
             /\ (pc[c] = "guest_import_ret" /\ pc'[c] # pc[c])
                    => lock[StoreOf(c)] = c]_vars

\* a handler is about to run for one call while another call waits for the
\* lock of the same store
C24_Witness ==
    \E c \in Callers : \E d \in Callers \ {c} :
        /\ pc[c] = "host_import"
        /\ pc[d] = "call"
        /\ StoreOf(d) = StoreOf(c)

\* C25: the handle a load returns is made from the record that load created
\* and inserted, also when loads under one name run concurrently
C25_LoadReturnsOwnRecord ==
    \A l \in LoadIds :
        (lpc[l] = "returned" /\ lres[l].ok)
            => lres[l].handle = PluginHandle(RuntimeModule(lstore[l]))

\* C26: the user data of a store changes in one step only, the step of the
\* load that created the store, from unset to the bundle of that load and
\* before any record names the store; every store the registry or a handle
\* names has its bundle, and it is the bundle of the loader it instantiates
C26_BundleWrittenOnce ==
    /\ [](\A n \in Names :
             modules[n] # NoModule
                 => data[modules[n].store]
                        = RuntimeCaller(modules[n].store, Loaders[inst[modules[n].store]]))
    /\ [](\A c \in Callers :
             handle[c] # NoHandle
                 => data[StoreOf(c)] = RuntimeCaller(StoreOf(c), Loaders[inst[StoreOf(c)]]))
    /\ [][\A s \in Stores :
             data'[s] # data[s]
                 => /\ data[s] = None
                    /\ s = nstores + 1
                    /\ \E l \in LoadIds :
                          lpc[l] = "idle" /\ lpc'[l] = "prepared" /\ lstore'[l] = s
                    /\ \A n \in Names : modules[n].store # s /\ modules'[n].store # s]_vars

\* a second load, under another name, has written the bundle of its store
\* while a call on the first store is in its import handler
C26_Witness ==
    \E c \in Callers :
        /\ pc[c] = "guest_import_ret"
        /\ StoreOf(c) = 1
        /\ data[1].some
        /\ data[2].some
        /\ inst[1] # inst[2]
        /\ modules[Loaders[inst[1]].name].store = 1

\* C27: two handles to one module record, whatever their origin (load,
\* lookup by name, lookup by type, clone), name the same store lock: their
\* calls are never in flight together, and while a call through one holds
\* the lock neither get_func nor call_checked through the other goes ahead
C27_HandlesShareLock ==
    \A c \in Callers : \A d \in Callers \ {c} :
        (handle[c] # NoHandle /\ handle[c].instance = handle[d].instance)
            => /\ StoreOf(c) = StoreOf(d)
               /\ ~(InCall(c) /\ InCall(d))
               /\ InCall(c) => (~ENABLED GetFunc(d) /\ ~ENABLED Acquire(d))

\* the handle load returned is in a call while the handle looked up or
\* cloned for the same record waits in get_func
C27_Witness ==
    /\ handle[1] # NoHandle
    /\ handle[2] = handle[1]
    /\ InCall(1)
    /\ lock[StoreOf(1)] = 1
    /\ pc[2] = "get_func"

\* a step of a lookup, of a clone, of get_func or of a call of task c
TaskStep(c) ==
    \/ handle'[c] # handle[c] /\ \A l \in LoadIds : lpc'[l] = lpc[l]
    \/ pc'[c] # pc[c]
    \/ res'[c] # res[c] /\ \A l \in LoadIds : lpc'[l] = lpc[l]

\* C28: lookups by name and by type, clones, get_func and calls leave the
\* registry and the linker's imports as they are; the linker changes only
\* in a context(...) step, and the registry only in the insert of a load
\* whose earlier steps all succeeded
C28_CallsAndLookupsFrame ==
    [][/\ \A c \in Callers :
             TaskStep(c) => modules' = modules /\ linker' = linker
       /\ linker' # linker
             => registered' # registered \/ failedCtx' # failedCtx
       /\ modules' # modules
             => \E l \in LoadIds :
                   /\ lpc[l] = "prepared"
                   /\ lpc'[l] = "inserted"
                   /\ LoadError(Loaders[lk[l]]) = ""
                   /\ modules' = [modules EXCEPT ![Loaders[lk[l]].name] =
                                     RuntimeModule(lstore[l])]]_vars

\* with both kinds of change behind it (a context registered, a record
\* inserted), a handle to the record has been handed out and a call through
\* it has returned
C28_Witness ==
    /\ linker # {}
    /\ modules["A"] # NoModule
    /\ \E c \in Callers :
          /\ handle[c] = PluginHandle(modules["A"])
          /\ pc[c] = "returned"
          /\ res[c].ok

ConsumerPcs == {"guest_entry", "host_import", "guest_import_ret", "host_read"}

\* C30: on the outgoing call path and on the import callback path, the
\* buffer a packed word describes is still allocated when its consumer
\* reads it, and a step frees nothing but the buffer of the word it
\* consumes: no buffer is freed twice and the host reads no freed buffer
C30_NoDoubleFreeNoStaleRead ==
    /\ [](\A c \in Callers :
             pc[c] \in ConsumerPcs => Region(packed[c]) \subseteq live[StoreOf(c)])
    /\ [][\A s \in Stores : \A p \in live[s] \ live'[s] :
             \E c \in Callers :
                 /\ StoreOf(c) = s
                 /\ pc[c] \in ConsumerPcs \ {"host_read"}
                 /\ pc'[c] # pc[c]
                 /\ p \in Region(packed[c])]_vars

\* a greet call has gone through both paths: its input and the import
\* result were freed by the guest, the import arguments by the host, and
\* the host is about to read the result buffer, the one buffer still live
C30_Witness ==
    \E c \in Callers :
        /\ pc[c] = "host_read"
        /\ method[c] = "greet"
        /\ Region(packed[c]) # {}
        /\ live[StoreOf(c)] = Region(packed[c])

\* C31: whenever a generated host import handler begins, for an import
\* called by a guest entry point or by the start function during load, the
\* user data of the store holds the bundle
C31_HandlerFindsBundle ==
    /\ \A c \in Callers : pc[c] = "host_import" => data[StoreOf(c)].some
    /\ \A l \in LoadIds : lpc[l] = "start_import" => data[lstore[l]].some

\* the handle of task c is stale: the registry record under the name of
\* its module is by now that of a later load
Stale(c) ==
    /\ handle[c] # NoHandle
    /\ modules[Loaders[inst[handle[c].store]].name].store # handle[c].store

\* C32: an insert into the registry leaves every handle, store lock, bundle
\* and instance as they are; a call through a handle, stale or not, holds
\* the lock of the store the handle was made from, touches no other store,
\* and whoami() answers with the descriptor of that store's own load
C32_HandleKeepsItsInstance ==
    /\ [][modules' # modules
             => handle' = handle /\ lock' = lock /\ data' = data /\ inst' = inst]_vars
    /\ [](\A c \in Callers : InCall(c) => lock[handle[c].store] = c)
    /\ [][\A c \in Callers :
             (InCall(c) /\ pc'[c] # pc[c])
                 => \A s \in Stores \ {handle[c].store} :
                       live'[s] = live[s] /\ mem'[s] = mem[s] /\ lock'[s] = lock[s]]_vars
    /\ [](\A c \in Callers :
             (pc[c] = "returned" /\ method[c] = "whoami" /\ res[c].ok)
                 => res[c].val = << Loaders[inst[handle[c].store]].tenant >>)

\* a call through a stale handle, submitted after a call through a handle
\* to the record that replaced it, is in flight on the earlier store while
\* that other call is in flight on the new one
C32_Witness ==
    \E c \in Callers : \E d \in Callers \ {c} :
        /\ Stale(c)
        /\ InCall(c)
        /\ InCall(d)
        /\ handle[d].store = modules[Loaders[inst[handle[c].store]].name].store
        /\ ticket[c] > ticket[d]

\* the task's handler awaits a lock of the store its own call holds
Reentered(c) ==
    /\ pc[c] = "host_import"
    /\ Nesting(c)
    /\ nested[c].at \in {"get_func", "call"}
    /\ nested[c].store = handle[c].store

\* C33: a handler that awaits get_func or call_checked on the instance whose
\* call it is serving never gets that instance's lock: from then on the task
\* still holds the lock, the inner call stays where it waits, and the outer
\* call neither moves nor produces a result; an inner call on a different
\* instance whose lock is free can take its next step
C33_ReentrantCallDeadlocks ==
    /\ [][\A c \in Callers : Reentered(c) =>
             /\ lock[handle[c].store] = c
             /\ lock'[handle[c].store] = c
             /\ nested'[c] = nested[c]
             /\ pc'[c] = pc[c]
             /\ res'[c] = res[c]
             /\ handle'[c] = handle[c]
             /\ ticket'[c] = ticket[c]]_vars
    /\ [](\A c \in Callers :
             /\ ~panicked
             /\ pc[c] = "host_import"
             /\ Nesting(c)
             /\ nested[c].at \in {"get_func", "call"}
             /\ nested[c].store # handle[c].store
             /\ lock[nested[c].store] = 0
             => ENABLED (NestedGetFunc(c) \/ NestedAcquire(c)))

\* one task waits on its own instance while another task's handler has
\* completed an inner call on a different instance and its call has returned
C33_Witness ==
    \E c, d \in Callers :
        /\ c # d
        /\ Reentered(c)
        /\ Nesting(d)
        /\ nested[d].at = "done"
        /\ nested[d].store # handle[d].store
        /\ nested[d].store = handle[c].store
        /\ pc[d] = "returned"
        /\ res[d].ok

====
